---- MODULE Spec2Model ----
(***************************************************************************)
(* State-machine model of geomcompare/io.py: the file sink                 *)
(* (write_geoms_to_file, _update_geoms_file, _write_geoms_file), the file  *)
(* source (extract_geoms_from_file) and the database source                *)
(* (fetch_geoms_from_pg).  The OGR driver, the PostGIS store and the       *)
(* coordinate transform are collaborators; they are modelled by the        *)
(* behaviour the code relies on.                                           *)
(***************************************************************************)
EXTENDS Integers, Sequences, FiniteSets, TLC

(* ---- bounds ---- *)
MaxGeoms == 2
MaxFeat == 1
MaxCalls == 2

(* ---- values ---- *)
\* Python's None where an EPSG code is expected (_get_layer_epsg, aoi_epsg).
NoneEPSG == 0
EPSGs == {4326, 3857}

\* False-easting-like offset standing for the coordinate system of a code.
Offset(e) == IF e = 4326 THEN 0 ELSE 10

\* shapely geometries: a type name and a coordinate.
GeomPool == {[type |-> "Point", c |-> 1], [type |-> "LineString", c |-> 2]}

RECURSIVE SeqsUpTo(_, _)
SeqsUpTo(S, n) ==
  IF n = 0 THEN {<<>>}
  ELSE LET shorter == SeqsUpTo(S, n - 1)
       IN shorter \cup {Append(s, x) : s \in {t \in shorter : Len(t) = n - 1}, x \in S}

\* geomutils.geom_type_mapping: shapely type name -> OGR geometry type.
geom_type_mapping(t) == IF t = "Point" THEN "wkbPoint" ELSE "wkbLineString"

\* geom.wkt: the text rendering of a shapely geometry.
Wkt(g) == <<g.type, g.c>>

\* ogr.CreateGeometryFromWkt: the OGR geometry parsed from a text rendering.
CreateGeometryFromWkt(w) == [type |-> w[1], c |-> w[2]]

\* geomutils.unchanged_geom, as a transform descriptor.
unchanged_geom == [from |-> NoneEPSG, to |-> NoneEPSG]

\* geomutils.get_transform_func(a, b): a descriptor of the a -> b conversion.
get_transform_func(a, b) == [from |-> a, to |-> b]

\* Calling a transform function on a geometry.
ApplyTransform(f, g) ==
  IF f = unchanged_geom THEN g
  ELSE [g EXCEPT !.c = g.c + Offset(f.to) - Offset(f.from)]

(* ---- the OGR dataset at the target path ---- *)
SrsValues ==
  {[kind |-> "none", code |-> NoneEPSG], [kind |-> "unidentified", code |-> NoneEPSG]}
    \cup {[kind |-> "epsg", code |-> e] : e \in EPSGs}

SrsOfEPSG(e) == [kind |-> "epsg", code |-> e]

LayerNames == {"a", "b"}

Layers ==
  [name : LayerNames, srs : SrsValues, geom_type : {"wkbPoint"},
   feats : SeqsUpTo(GeomPool, MaxFeat)]

NoDataset == [exists |-> FALSE, layers |-> <<>>]

Datasets ==
  {NoDataset}
    \cup {[exists |-> TRUE, layers |-> <<>>]}
    \cup {[exists |-> TRUE, layers |-> <<l>>] : l \in Layers}
    \cup {[exists |-> TRUE, layers |-> <<p[1], p[2]>>] :
            p \in {q \in Layers \X Layers : q[1].name # q[2].name /\ q[2].feats = <<>>}}

VARIABLES
  pc,         \* position in the running operation
  err,        \* the exception that ended the operation, "" if none
  mode,       \* write_geoms_to_file: mode argument
  geoms,      \* write_geoms_to_file: the input sequence
  geoms_epsg, \* write_geoms_to_file: geoms_epsg argument
  layer_name, \* write_geoms_to_file: layer_name argument
  fs,         \* the dataset stored at filename
  prior,      \* the dataset stored at filename when the current call began
  geoms_iter, \* geometries not yet consumed from the input
  geom_type,  \* OGR type derived from the peeked geometry
  ds_rw,      \* _update_geoms_file: what driver.Open(filename, 1) returned
  dsOpen,     \* TRUE while a dataset handle is held
  lyr_obj,    \* index in fs.layers of the layer being written, 0 if none
  lyr_epsg,   \* result of _get_layer_epsg for the target layer
  transform_geom, \* the transform chosen by _update_geoms_file
  log,        \* lines the current call put on stdout: the logger's records
              \* and the return codes printed at line 285
  calls,      \* number of calls started
  first,      \* the dataset left by the first completed call
  out,        \* generators: the geometries yielded so far
  suspended,  \* generators: TRUE while suspended at a yield
  e_args,     \* extract_geoms_from_file: the arguments
  e_layers,   \* extract_geoms_from_file: layers, once resolved
  e_i,        \* extract_geoms_from_file: position in layers of lyr
  e_lyr,      \* extract_geoms_from_file: locals of the current iteration
  e_calls,    \* calls made on OGR layers: <<method, layer, feature id>>
  f_args,     \* fetch_geoms_from_pg: the arguments
  connOpen,   \* TRUE while a connection opened by the function is open
  curOpen,    \* TRUE while the cursor is open
  pg_epsg,    \* fetch_geoms_from_pg: local pg_epsg
  f_aoi,      \* fetch_geoms_from_pg: local aoi
  transformCalls, \* number of calls of a transform function
  stmts,      \* statements executed on the cursor, in order
  sql_query,  \* fetch_geoms_from_pg: local sql_query
  db,         \* the PostGIS table: its SRID and the values of its column
  f_rows      \* rows the cursor has not yet delivered

wargs == <<mode, geoms, geoms_epsg, layer_name>>
wvars == <<mode, geoms, geoms_epsg, layer_name, prior, geoms_iter, geom_type,
           ds_rw, lyr_obj, lyr_epsg, transform_geom, log, calls, first>>
gvars == <<out, suspended>>
evars == <<e_args, e_layers, e_i, e_lyr, e_calls>>
fvars == <<f_args, connOpen, curOpen, pg_epsg, f_aoi, transformCalls, stmts,
           sql_query, db, f_rows>>
vars == <<pc, err, fs, dsOpen, wvars, gvars, evars, fvars>>

(* ---- helpers of the sink ---- *)

\* _get_layer_epsg
_get_layer_epsg(layer) ==
  IF layer.srs.kind # "none" /\ layer.srs.kind = "epsg"
  THEN layer.srs.code
  ELSE NoneEPSG

\* ds.GetLayer(name): index of the layer of that name, 0 for None.
GetLayerByName(ds, name) ==
  IF \E i \in 1..Len(ds.layers) : ds.layers[i].name = name
  THEN CHOOSE i \in 1..Len(ds.layers) : ds.layers[i].name = name
  ELSE 0

\* ds.GetLayer(): the first layer, 0 for None.
GetLayerDefault(ds) == IF Len(ds.layers) > 0 THEN 1 ELSE 0

\* ds.CreateLayer(name, srs=srs, geom_type=geom_type)
CreateLayer(ds, name, srs, gt) ==
  [ds EXCEPT !.layers =
     Append(@, [name |-> name, srs |-> srs, geom_type |-> gt, feats |-> <<>>])]

\* lyr_obj.CreateFeature(feature) with the feature's geometry set from text.
CreateFeature(ds, i, w) ==
  [ds EXCEPT !.layers[i].feats = Append(@, CreateGeometryFromWkt(w))]

\* Outcomes of driver.Open(filename, 1).  Nothing at the path: the driver does
\* not identify it and None is returned.  A dataset at the path: a handle, or,
\* when it cannot be opened read-write, either None or, since
\* ogr.UseExceptions() is in force, the driver's error raised as RuntimeError.
OpenOutcomes(ds) ==
  IF ds.exists THEN {"handle", "none", "raise"} ELSE {"none"}

(* ---- values of the variables an operation does not use ---- *)

IdleWrite ==
  /\ mode = "" /\ geoms = <<>> /\ geoms_epsg = NoneEPSG /\ layer_name = ""
  /\ prior = NoDataset /\ geoms_iter = <<>> /\ geom_type = "" /\ ds_rw = "unset"
  /\ lyr_obj = 0 /\ lyr_epsg = NoneEPSG /\ transform_geom = unchanged_geom
  /\ log = <<>> /\ calls = 1 /\ first = NoDataset

IdleGen == out = <<>> /\ suspended = FALSE

IdleExtract ==
  /\ e_args = <<>> /\ e_layers = <<>> /\ e_i = 0 /\ e_lyr = <<>> /\ e_calls = <<>>

IdleFetch ==
  /\ f_args = <<>> /\ connOpen = FALSE /\ curOpen = FALSE /\ pg_epsg = NoneEPSG
  /\ f_aoi = <<>> /\ transformCalls = 0 /\ stmts = <<>> /\ sql_query = <<>>
  /\ db = <<>> /\ f_rows = <<>>

(* ---- write_geoms_to_file ---- *)

InitWrite ==
  /\ IdleGen /\ IdleExtract /\ IdleFetch
  /\ pc = "start"
  /\ err = ""
  /\ mode \in {"update", "overwrite", "append"}
  /\ geoms \in SeqsUpTo(GeomPool, MaxGeoms)
  /\ geoms_epsg \in EPSGs
  /\ layer_name = "a"
  /\ fs \in Datasets
  /\ prior = fs
  /\ geoms_iter = <<>>
  /\ geom_type = ""
  /\ ds_rw = "unset"
  /\ dsOpen = FALSE
  /\ lyr_obj = 0
  /\ lyr_epsg = NoneEPSG
  /\ transform_geom = unchanged_geom
  /\ log = <<>>
  /\ calls = 1
  /\ first = NoDataset

\* lines 235-241: peek the first geometry and chain it back.
PeekFirst ==
  /\ pc = "start"
  /\ IF geoms = <<>>
     THEN /\ pc' = "failed"
          /\ err' = "StopIteration"
          /\ UNCHANGED <<geoms_iter, geom_type>>
     ELSE /\ geom_type' = geom_type_mapping(Head(geoms).type)
          /\ geoms_iter' = <<Head(geoms)>> \o Tail(geoms)
          /\ pc' = "mode"
          /\ err' = err
  /\ UNCHANGED <<wargs, fs, prior, ds_rw, dsOpen, lyr_obj, lyr_epsg,
                 transform_geom, log, calls, first>>
  /\ UNCHANGED <<gvars, evars, fvars>>

\* Mutant of CheckMode: the mode is not validated, anything that is not
\* "update" is dispatched to the overwrite path.
CheckMode_Unvalidated ==
  /\ pc = "mode"
  /\ pc' = IF mode = "update" THEN "u_open" ELSE "w_create"
  /\ UNCHANGED <<err, wargs, fs, prior, geoms_iter, geom_type, ds_rw, dsOpen,
                 lyr_obj, lyr_epsg, transform_geom, log, calls, first>>
  /\ UNCHANGED <<gvars, evars, fvars>>

\* lines 242-250: validate the mode and dispatch.
CheckMode ==
  /\ pc = "mode"
  /\ IF mode \notin {"update", "overwrite"}
     THEN pc' = "failed" /\ err' = "ValueError"
     ELSE /\ pc' = IF mode = "update" THEN "u_open" ELSE "w_create"
          /\ err' = err
  /\ UNCHANGED <<wargs, fs, prior, geoms_iter, geom_type, ds_rw, dsOpen, lyr_obj,
                 lyr_epsg, transform_geom, log, calls, first>>
  /\ UNCHANGED <<gvars, evars, fvars>>

\* lines 255-259: open the dataset read-write, fall back when it is None.
UpdateOpen ==
  /\ pc = "u_open"
  /\ \E o \in OpenOutcomes(fs) :
       \/ /\ o = "handle"
          /\ ds_rw' = "handle"
          /\ dsOpen' = TRUE
          /\ pc' = "u_resolve"
          /\ err' = err
       \/ /\ o = "none"
          /\ ds_rw' = "None"
          /\ pc' = "w_create"
          /\ UNCHANGED <<dsOpen, err>>
       \/ /\ o = "raise"
          /\ pc' = "failed"
          /\ err' = "RuntimeError"
          /\ UNCHANGED <<ds_rw, dsOpen>>
  /\ UNCHANGED <<wargs, fs, prior, geoms_iter, geom_type, lyr_obj, lyr_epsg,
                 transform_geom, log, calls, first>>
  /\ UNCHANGED <<gvars, evars, fvars>>

\* Mutant of ResolveLayer: the fall back to the default layer is left out.
ResolveLayer_NoDefault(ds, name) == GetLayerByName(ds, name)

\* lines 260-262: the named layer, else the default layer, else None.
ResolveLayer(ds, name) ==
  IF GetLayerByName(ds, name) # 0 THEN GetLayerByName(ds, name)
  ELSE GetLayerDefault(ds)

\* lines 260-281: resolve the target layer and decide the transform.
UpdateResolve ==
  /\ pc = "u_resolve"
  /\ LET l == ResolveLayer(fs, layer_name)
     IN IF l = 0
        THEN /\ fs' = CreateLayer(fs, layer_name, SrsOfEPSG(geoms_epsg), geom_type)
             /\ lyr_obj' = Len(fs.layers) + 1
             /\ transform_geom' = unchanged_geom
             /\ UNCHANGED <<lyr_epsg, log>>
        ELSE /\ lyr_obj' = l
             /\ lyr_epsg' = _get_layer_epsg(fs.layers[l])
             /\ IF lyr_epsg' # NoneEPSG /\ lyr_epsg' # geoms_epsg
                THEN /\ log' = Append(log, "reprojected")
                     /\ transform_geom' = get_transform_func(geoms_epsg, lyr_epsg')
                ELSE /\ log' = Append(log, "not identified")
                     /\ transform_geom' = unchanged_geom
             /\ fs' = fs
  /\ pc' = "u_loop"
  /\ UNCHANGED <<err, wargs, prior, geoms_iter, geom_type, ds_rw, dsOpen, calls,
                 first>>
  /\ UNCHANGED <<gvars, evars, fvars>>

\* Mutant of UpdateFeature: a geometry already stored in the layer is skipped.
UpdateFeature_Dedup ==
  /\ pc = "u_loop"
  /\ geoms_iter # <<>>
  /\ LET g == ApplyTransform(transform_geom, Head(geoms_iter))
     IN fs' = IF \E k \in 1..Len(fs.layers[lyr_obj].feats) :
                     fs.layers[lyr_obj].feats[k] = g
              THEN fs
              ELSE CreateFeature(fs, lyr_obj, Wkt(g))
  /\ geoms_iter' = Tail(geoms_iter)
  /\ log' = Append(log, "0")
  /\ UNCHANGED <<pc, err, wargs, prior, geom_type, ds_rw, dsOpen, lyr_obj,
                 lyr_epsg, transform_geom, calls, first>>
  /\ UNCHANGED <<gvars, evars, fvars>>

\* lines 282-286: one iteration of the update loop.  CreateFeature returns 0,
\* which line 285 prints, or raises, and then nothing is printed.
UpdateFeature ==
  /\ pc = "u_loop"
  /\ geoms_iter # <<>>
  /\ \/ /\ fs' = CreateFeature(fs, lyr_obj,
                               Wkt(ApplyTransform(transform_geom, Head(geoms_iter))))
        /\ geoms_iter' = Tail(geoms_iter)
        /\ log' = Append(log, "0")
        /\ UNCHANGED <<pc, err>>
     \/ /\ pc' = "failed"
        /\ err' = "RuntimeError"
        /\ geoms_iter' = Tail(geoms_iter)
        /\ fs' = fs
        /\ log' = log
  /\ UNCHANGED <<wargs, prior, geom_type, ds_rw, dsOpen, lyr_obj, lyr_epsg,
                 transform_geom, calls, first>>
  /\ UNCHANGED <<gvars, evars, fvars>>

\* line 287: ds = None.
UpdateClose ==
  /\ pc = "u_loop"
  /\ geoms_iter = <<>>
  /\ dsOpen' = FALSE
  /\ pc' = "done"
  /\ first' = IF calls = 1 THEN fs ELSE first
  /\ UNCHANGED <<err, wargs, fs, prior, geoms_iter, geom_type, ds_rw, lyr_obj,
                 lyr_epsg, transform_geom, log, calls>>
  /\ UNCHANGED <<gvars, evars, fvars>>

\* Mutant of WriteCreate: the dataset found at the path is not deleted.
WriteCreate_KeepExisting ==
  /\ pc = "w_create"
  /\ fs' = CreateLayer([fs EXCEPT !.exists = TRUE], layer_name,
                       SrsOfEPSG(geoms_epsg), geom_type)
  /\ lyr_obj' = Len(fs.layers) + 1
  /\ dsOpen' = TRUE
  /\ pc' = "w_loop"
  /\ UNCHANGED <<err, wargs, prior, geoms_iter, geom_type, ds_rw, lyr_epsg,
                 transform_geom, log, calls, first>>
  /\ UNCHANGED <<gvars, evars, fvars>>

\* lines 292-296: delete what is at the path, create the dataset and layer.
WriteCreate ==
  /\ pc = "w_create"
  /\ fs' = CreateLayer([exists |-> TRUE, layers |-> <<>>], layer_name,
                       SrsOfEPSG(geoms_epsg), geom_type)
  /\ lyr_obj' = 1
  /\ dsOpen' = TRUE
  /\ pc' = "w_loop"
  /\ UNCHANGED <<err, wargs, prior, geoms_iter, geom_type, ds_rw, lyr_epsg,
                 transform_geom, log, calls, first>>
  /\ UNCHANGED <<gvars, evars, fvars>>

\* lines 297-301: one iteration of the write loop; CreateFeature may raise.
WriteFeature ==
  /\ pc = "w_loop"
  /\ geoms_iter # <<>>
  /\ \/ /\ fs' = CreateFeature(fs, lyr_obj, Wkt(Head(geoms_iter)))
        /\ geoms_iter' = Tail(geoms_iter)
        /\ UNCHANGED <<pc, err>>
     \/ /\ pc' = "failed"
        /\ err' = "RuntimeError"
        /\ geoms_iter' = Tail(geoms_iter)
        /\ fs' = fs
  /\ UNCHANGED <<wargs, prior, geom_type, ds_rw, dsOpen, lyr_obj, lyr_epsg,
                 transform_geom, log, calls, first>>
  /\ UNCHANGED <<gvars, evars, fvars>>

\* line 303: ds = None.
WriteClose ==
  /\ pc = "w_loop"
  /\ geoms_iter = <<>>
  /\ dsOpen' = FALSE
  /\ pc' = "done"
  /\ first' = IF calls = 1 THEN fs ELSE first
  /\ UNCHANGED <<err, wargs, fs, prior, geoms_iter, geom_type, ds_rw, lyr_obj,
                 lyr_epsg, transform_geom, log, calls>>
  /\ UNCHANGED <<gvars, evars, fvars>>

\* The caller runs write_geoms_to_file again with the same arguments.
CallAgain ==
  /\ pc = "done"
  /\ calls < MaxCalls
  /\ calls' = calls + 1
  /\ pc' = "start"
  /\ prior' = fs
  /\ geoms_iter' = <<>>
  /\ geom_type' = ""
  /\ ds_rw' = "unset"
  /\ lyr_obj' = 0
  /\ lyr_epsg' = NoneEPSG
  /\ transform_geom' = unchanged_geom
  /\ log' = <<>>
  /\ UNCHANGED <<err, wargs, fs, dsOpen, first>>
  /\ UNCHANGED <<gvars, evars, fvars>>

\* An operation that ended by an exception, or a generator the caller stopped
\* iterating, still holds its locals (ds, cursor, conn).  They are finalised
\* when the interpreter frees the frame: when the caller closes or drops the
\* generator, or has handled the exception and the traceback is freed.  The
\* code does not decide whether or when that happens, so the step may or may
\* not be taken.
Finalise ==
  /\ pc \in {"abandoned", "failed"}
  /\ dsOpen \/ curOpen \/ connOpen
  /\ dsOpen' = FALSE
  /\ curOpen' = FALSE
  /\ connOpen' = FALSE
  /\ UNCHANGED <<pc, err, fs, wvars, gvars, evars, f_args, pg_epsg, f_aoi,
                 transformCalls, stmts, sql_query, db, f_rows>>

Next ==
  \/ PeekFirst
  \/ CheckMode
  \/ UpdateOpen
  \/ UpdateResolve
  \/ UpdateFeature
  \/ UpdateClose
  \/ WriteCreate
  \/ WriteFeature
  \/ WriteClose
  \/ CallAgain
  \/ Finalise

Spec == InitWrite /\ [][Next]_vars

(* ---- properties of the sink ---- *)

\* The dataset an overwrite is expected to leave: one layer named layer_name,
\* in the declared EPSG, holding the input geometries in input order.
FreshDataset ==
  [exists |-> TRUE,
   layers |-> <<[name |-> layer_name, srs |-> SrsOfEPSG(geoms_epsg),
                 geom_type |-> geom_type_mapping(Head(geoms).type),
                 feats |-> geoms]>>]

\* C1: when a call in mode "overwrite" returns, whatever was at the path
\* before, the dataset holds exactly one fresh layer whose features are the
\* input geometries, each once, in input order and un-transformed; a second
\* identical call leaves the content the first one left.
C1_OverwriteExact ==
  (pc = "done" /\ mode = "overwrite") =>
     /\ fs = FreshDataset
     /\ calls > 1 => fs = first

C1_Witness ==
  /\ pc = "done" /\ mode = "overwrite" /\ calls = 2
  /\ Len(geoms) = 2 /\ geoms[1] # geoms[2]
  /\ prior.exists /\ fs = first

\* C2: a call in mode "update" whose open did not give a handle (nothing at
\* the path, or a dataset the driver cannot open read-write) does not end
\* with the open's error, and when it returns the dataset is the one an
\* overwrite leaves.
C2_UpdateFallback ==
  (mode = "update" /\ geoms # <<>> /\ pc \in {"done", "failed"}
     /\ ds_rw # "handle") =>
     /\ ~(pc = "failed" /\ ds_rw = "unset")
     /\ pc = "done" => fs = FreshDataset

\* The features expected at the end of the target layer after an update.
Appended == [i \in 1..Len(geoms) |-> ApplyTransform(transform_geom, geoms[i])]

\* C3: when a call in mode "update" that opened the dataset returns, the
\* target layer holds its n earlier features unchanged followed by the m
\* inputs, one new feature each, in input order (n + m features), and every
\* other layer is as it was.
C3_AdditiveMerge ==
  (pc = "done" /\ mode = "update" /\ ds_rw = "handle") =>
     /\ Len(fs.layers) >= Len(prior.layers)
     /\ \A i \in 1..Len(prior.layers) : i # lyr_obj => fs.layers[i] = prior.layers[i]
     /\ LET old == IF lyr_obj <= Len(prior.layers)
                   THEN prior.layers[lyr_obj].feats ELSE <<>>
        IN /\ Len(fs.layers[lyr_obj].feats) = Len(old) + Len(geoms)
           /\ fs.layers[lyr_obj].feats = old \o Appended

C3_Witness ==
  /\ pc = "done" /\ mode = "update" /\ ds_rw = "handle"
  /\ lyr_obj <= Len(prior.layers)
  /\ prior.layers[lyr_obj].feats # <<>>
  /\ Len(geoms) = 2
  /\ Appended[1] = prior.layers[lyr_obj].feats[1]

\* The logger's records among the lines of the call, without the return
\* codes printed per geometry.
Diagnostics == SelectSeq(log, LAMBDA l : l # "0")

\* C4: in an update of an existing layer the geometries are reprojected
\* exactly when the layer's EPSG is resolved and differs from geoms_epsg,
\* and the single diagnostic of the call describes the branch taken:
\* "reprojected" exactly when reprojecting, "not identified" exactly when the
\* layer's EPSG could not be resolved.
C4_DiagnosticDescribesBranch ==
  (ds_rw = "handle" /\ pc \in {"u_loop", "done", "failed"}
     /\ lyr_obj <= Len(prior.layers)) =>
     /\ Len(Diagnostics) = 1
     /\ (transform_geom # unchanged_geom) <=>
          (lyr_epsg # NoneEPSG /\ lyr_epsg # geoms_epsg)
     /\ (Diagnostics[1] = "reprojected") <=> (transform_geom # unchanged_geom)
     /\ (Diagnostics[1] = "not identified") <=> (lyr_epsg = NoneEPSG)

\* C5: an empty input ends the call with StopIteration and an invalid mode
\* ends it with ValueError, in both cases with nothing opened for writing,
\* created, deleted or appended: the dataset at the path is what it was.
C5_FailBeforeWrite ==
  /\ (geoms = <<>> /\ pc # "start") => (pc = "failed" /\ err = "StopIteration")
  /\ (geoms # <<>> /\ mode \notin {"update", "overwrite"}
        /\ pc \notin {"start", "mode"}) => (pc = "failed" /\ err = "ValueError")
  /\ (pc = "failed" /\ err \in {"StopIteration", "ValueError"}) =>
        (fs = prior /\ ~dsOpen /\ ds_rw = "unset")

C5_Witness ==
  /\ pc = "failed" /\ err = "ValueError"
  /\ prior.exists /\ Len(prior.layers) = 2
  /\ fs = prior

\* C10: once an update has opened the dataset, the target is the layer named
\* layer_name if the dataset had one; otherwise its first layer if it had
\* any, the transform being decided against that layer's EPSG; otherwise a
\* new layer named layer_name in geoms_epsg, written un-transformed.  The
\* resolution raises nothing and the layers the dataset had are kept.
C10_TargetLayer ==
  (ds_rw = "handle" /\ pc \in {"u_loop", "done"}) =>
    LET named == {i \in 1..Len(prior.layers) : prior.layers[i].name = layer_name}
    IN /\ err = ""
       /\ fs.exists
       /\ \A i \in 1..Len(prior.layers) : fs.layers[i].name = prior.layers[i].name
       /\ named # {} => lyr_obj \in named
       /\ (named = {} /\ prior.layers # <<>>) =>
            /\ lyr_obj = 1
            /\ transform_geom =
                 IF prior.layers[1].srs.kind = "epsg"
                    /\ prior.layers[1].srs.code # geoms_epsg
                 THEN get_transform_func(geoms_epsg, prior.layers[1].srs.code)
                 ELSE unchanged_geom
       /\ prior.layers = <<>> =>
            /\ lyr_obj = 1
            /\ fs.layers[1].name = layer_name
            /\ fs.layers[1].srs = SrsOfEPSG(geoms_epsg)
            /\ transform_geom = unchanged_geom
            /\ Diagnostics = <<>>

C10_Witness ==
  /\ ds_rw = "handle" /\ pc = "done"
  /\ prior.layers # <<>>
  /\ \A i \in 1..Len(prior.layers) : prior.layers[i].name # layer_name
  /\ transform_geom # unchanged_geom
  /\ Len(fs.layers[1].feats) > Len(prior.layers[1].feats)

(* ---- extract_geoms_from_file ---- *)

\* Python's None for an AOI, an attribute filter and a set of feature ids.
NoAOI == [type |-> "None", c |-> 0]
AOIs == {[type |-> "Polygon", c |-> 1], [type |-> "Polygon", c |-> 11]}
NoFilter == "None"
AttrFilters == {"OGR_GEOMETRY = 'POINT'"}
NoFids == [given |-> FALSE, ids |-> <<>>]
FidLists == {[given |-> TRUE, ids |-> q] : q \in SeqsUpTo(0..(MaxFeat - 1), MaxFeat)}

\* What aoi.get(lyr), aoi_epsg.get(lyr), attr_filter.get(lyr) and fids.get(lyr)
\* return for one layer.
NoLayerArgs ==
  [aoi |-> NoAOI, aoi_epsg |-> NoneEPSG, attr_filter |-> NoFilter, fids |-> NoFids]

LayerArgs ==
  {a \in [aoi : AOIs \cup {NoAOI}, aoi_epsg : EPSGs \cup {NoneEPSG},
          attr_filter : AttrFilters \cup {NoFilter}, fids : FidLists \cup {NoFids}] :
     a.aoi = NoAOI => a.aoi_epsg = NoneEPSG}

SecondLayerArgs ==
  {a \in LayerArgs : a.aoi = NoAOI /\ a.fids \in {NoFids, [given |-> TRUE, ids |-> <<0>>]}}

\* The datasets read by the file source: a first layer "a", an optional
\* second layer "b".
SourceDatasets ==
  {NoDataset}
    \cup {[exists |-> TRUE, layers |-> <<>>]}
    \cup {[exists |-> TRUE, layers |-> <<l>>] : l \in {x \in Layers : x.name = "a"}}
    \cup {[exists |-> TRUE, layers |-> <<p[1], p[2]>>] :
            p \in {q \in Layers \X Layers :
                     q[1].name = "a" /\ q[2].name = "b" /\ q[2].srs.kind = "none"}}

\* The layers argument: None, a bare string, or a sequence of layer positions.
LayersArgs(ds) ==
  {[kind |-> "None", sel |-> <<>>]}
    \cup (IF Len(ds.layers) >= 1 THEN {[kind |-> "seq", sel |-> <<1>>]} ELSE {})
    \cup (IF Len(ds.layers) >= 2 THEN {[kind |-> "seq", sel |-> <<2, 1>>]} ELSE {})

ExtractArgs(ds) ==
  {[driver_ok |-> TRUE, layers |-> l, per |-> <<a, b>>] :
     l \in LayersArgs(ds),
     a \in (IF Len(ds.layers) >= 1 THEN LayerArgs ELSE {NoLayerArgs}),
     b \in (IF Len(ds.layers) >= 2 THEN SecondLayerArgs ELSE {NoLayerArgs})}
    \cup {[driver_ok |-> FALSE, layers |-> [kind |-> "None", sel |-> <<>>],
           per |-> <<NoLayerArgs, NoLayerArgs>>],
          [driver_ok |-> TRUE, layers |-> [kind |-> "str", sel |-> <<>>],
           per |-> <<NoLayerArgs, NoLayerArgs>>]}

\* geom.ExportToWkb() and wkb.loads(): the binary form and its decoding.
ExportToWkb(g) == <<IF g.type = "Point" THEN 1 ELSE 2, g.c>>
wkb_loads(b) == [type |-> IF b[1] = 1 THEN "Point" ELSE "LineString", c |-> b[2]]

\* The spatial and attribute tests of an OGR layer.
Intersects(g, a) == g.c = a.c
AttrPass(g, flt) == flt = NoFilter \/ g.type = "Point"

\* The features an OGR layer delivers when iterated with its filters installed.
FilteredFeatures(layer, spatial, attr) ==
  LET Pass(g) == (spatial = NoAOI \/ Intersects(g, spatial)) /\ AttrPass(g, attr)
  IN SelectSeq(layer.feats, Pass)

\* The locals of one iteration of the loop over layers.
NoLyr ==
  [obj |-> "unset", lyr_aoi |-> NoAOI, lyr_attr_filter |-> NoFilter,
   lyr_fids |-> NoFids, spatial |-> NoAOI, attr |-> NoFilter, k |-> 0]

InitExtract ==
  /\ IdleWrite /\ IdleGen /\ IdleFetch
  /\ pc = "e_start"
  /\ err = ""
  /\ fs \in SourceDatasets
  /\ dsOpen = FALSE
  /\ e_args \in ExtractArgs(fs)
  /\ e_layers = <<>>
  /\ e_i = 0
  /\ e_lyr = NoLyr
  /\ e_calls = <<>>

\* lines 150-189: the checks, driver.Open(filename), the default of layers.
ExtractOpen ==
  /\ pc = "e_start"
  /\ IF ~fs.exists \/ ~e_args.driver_ok
     THEN /\ pc' = "failed" /\ err' = "ValueError"
          /\ UNCHANGED <<dsOpen, e_layers, e_i>>
     ELSE /\ dsOpen' = TRUE
          /\ IF e_args.layers.kind = "str"
             THEN /\ pc' = "failed" /\ err' = "ValueError"
                  /\ UNCHANGED <<e_layers, e_i>>
             ELSE /\ e_layers' = IF e_args.layers.kind = "None"
                                 THEN [i \in 1..Len(fs.layers) |-> i]
                                 ELSE e_args.layers.sel
                  /\ e_i' = 1
                  /\ pc' = "e_layer"
                  /\ err' = err
  /\ suspended' = FALSE
  /\ UNCHANGED <<fs, wvars, out, e_args, e_lyr, e_calls, fvars>>

\* lines 196-204: the AOI of the layer, reprojected when its EPSG differs from
\* the layer's.
LayerAoi(a, layer) ==
  IF a.aoi # NoAOI /\ a.aoi_epsg # NoneEPSG
     /\ _get_layer_epsg(layer) # NoneEPSG /\ _get_layer_epsg(layer) # a.aoi_epsg
  THEN ApplyTransform(get_transform_func(a.aoi_epsg, _get_layer_epsg(layer)), a.aoi)
  ELSE a.aoi

\* lines 204 and 207: what lyr_obj is bound to after the filters are set.
\* SetSpatialFilter returns None and SetAttributeFilter returns the OGR error
\* code 0; "AttributeError" stands for calling SetAttributeFilter on None.
LayerObjAfterFilters(a) ==
  IF a.aoi # NoAOI
  THEN IF a.attr_filter # NoFilter THEN "AttributeError" ELSE "None"
  ELSE IF a.attr_filter # NoFilter THEN "int" ELSE "layer"

\* line 209: the direct fetch by id is taken.
TakesFetchPath(lyr_aoi, lyr_attr_filter, lyr_fids) ==
  lyr_aoi = NoAOI /\ lyr_attr_filter = NoFilter /\ lyr_fids.given

\* lines 193-209: one layer is looked up, its filters are set and the way to
\* read it is chosen.
ExtractLayer ==
  /\ pc = "e_layer"
  /\ e_i <= Len(e_layers)
  /\ LET l == e_layers[e_i]
         a == e_args.per[l]
         lyr_aoi == LayerAoi(a, fs.layers[l])
         obj == LayerObjAfterFilters(a)
     IN /\ e_calls' = e_calls
             \o (IF a.aoi # NoAOI THEN <<<<"SetSpatialFilter", l, 0>>>> ELSE <<>>)
             \o (IF a.attr_filter # NoFilter /\ obj # "AttributeError"
                 THEN <<<<"SetAttributeFilter", l, 0>>>> ELSE <<>>)
        /\ e_lyr' = [obj |-> obj, lyr_aoi |-> lyr_aoi,
                     lyr_attr_filter |-> a.attr_filter, lyr_fids |-> a.fids,
                     spatial |-> lyr_aoi,
                     attr |-> IF obj = "AttributeError" THEN NoFilter ELSE a.attr_filter,
                     k |-> 0]
        /\ IF obj = "AttributeError"
           THEN pc' = "failed" /\ err' = "AttributeError"
           ELSE /\ pc' = IF TakesFetchPath(lyr_aoi, a.attr_filter, a.fids)
                         THEN "e_fetch" ELSE "e_scan"
                /\ err' = err
  /\ suspended' = FALSE
  /\ UNCHANGED <<fs, dsOpen, wvars, out, e_args, e_layers, e_i, fvars>>

\* lines 210-213: one id is fetched with GetFeature and its geometry yielded;
\* an id the layer does not have gives None, whose use raises.
ExtractFetch ==
  /\ pc = "e_fetch"
  /\ e_lyr.k < Len(e_lyr.lyr_fids.ids)
  /\ LET l == e_layers[e_i]
         fid == e_lyr.lyr_fids.ids[e_lyr.k + 1]
     IN /\ e_calls' = Append(e_calls, <<"GetFeature", l, fid>>)
        /\ e_lyr' = [e_lyr EXCEPT !.k = @ + 1]
        /\ IF fid + 1 <= Len(fs.layers[l].feats)
           THEN /\ out' = Append(out, wkb_loads(ExportToWkb(fs.layers[l].feats[fid + 1])))
                /\ suspended' = TRUE
                /\ UNCHANGED <<pc, err>>
           ELSE /\ pc' = "failed" /\ err' = "AttributeError"
                /\ suspended' = FALSE
                /\ out' = out
  /\ UNCHANGED <<fs, dsOpen, wvars, e_args, e_layers, e_i, fvars>>

\* lines 215-217: the layer is iterated and the next feature yielded;
\* iterating None or an integer raises TypeError.
ExtractScan ==
  /\ pc = "e_scan"
  /\ LET l == e_layers[e_i]
         feats == FilteredFeatures(fs.layers[l], e_lyr.spatial, e_lyr.attr)
     IN IF e_lyr.obj # "layer"
        THEN /\ pc' = "failed" /\ err' = "TypeError"
             /\ suspended' = FALSE
             /\ UNCHANGED <<out, e_lyr, e_calls>>
        ELSE /\ e_lyr.k < Len(feats)
             /\ e_calls' = IF e_lyr.k = 0 THEN Append(e_calls, <<"iter", l, 0>>)
                           ELSE e_calls
             /\ e_lyr' = [e_lyr EXCEPT !.k = @ + 1]
             /\ out' = Append(out, wkb_loads(ExportToWkb(feats[e_lyr.k + 1])))
             /\ suspended' = TRUE
             /\ UNCHANGED <<pc, err>>
  /\ UNCHANGED <<fs, dsOpen, wvars, e_args, e_layers, e_i, fvars>>

\* The inner loop of lines 210-217 is exhausted: on to the next layer.
ExtractLayerDone ==
  /\ \/ pc = "e_fetch" /\ e_lyr.k = Len(e_lyr.lyr_fids.ids)
     \/ /\ pc = "e_scan" /\ e_lyr.obj = "layer"
        /\ e_lyr.k = Len(FilteredFeatures(fs.layers[e_layers[e_i]],
                                          e_lyr.spatial, e_lyr.attr))
  /\ e_calls' = IF pc = "e_scan" /\ e_lyr.k = 0
                THEN Append(e_calls, <<"iter", e_layers[e_i], 0>>) ELSE e_calls
  /\ e_i' = e_i + 1
  /\ pc' = "e_layer"
  /\ suspended' = FALSE
  /\ UNCHANGED <<err, fs, dsOpen, wvars, out, e_args, e_layers, e_lyr, fvars>>

\* line 218: ds = None, reached when the loop over layers ends.
ExtractEnd ==
  /\ pc = "e_layer"
  /\ e_i > Len(e_layers)
  /\ dsOpen' = FALSE
  /\ pc' = "done"
  /\ UNCHANGED <<err, fs, wvars, gvars, evars, fvars>>

\* The caller stops iterating a generator that is suspended at a yield.
Abandon ==
  /\ suspended
  /\ pc \notin {"done", "failed", "abandoned"}
  /\ pc' = "abandoned"
  /\ UNCHANGED <<err, fs, dsOpen, wvars, gvars, evars, fvars>>

NextExtract ==
  \/ ExtractOpen
  \/ ExtractLayer
  \/ ExtractFetch
  \/ ExtractScan
  \/ ExtractLayerDone
  \/ ExtractEnd
  \/ Abandon
  \/ Finalise

SpecExtract == InitExtract /\ [][NextExtract]_vars

\* The steps of extract_geoms_from_file itself: once resumed, the generator
\* runs to its next yield, its end or an exception.
ExtractStep ==
  \/ ExtractOpen
  \/ ExtractLayer
  \/ ExtractFetch
  \/ ExtractScan
  \/ ExtractLayerDone
  \/ ExtractEnd

\* The file source with its own steps taken whenever they are enabled.  No
\* fairness is stated for Abandon and Finalise: they are the caller's and the
\* interpreter's, not the operation's.
SpecExtractFair == SpecExtract /\ WF_vars(ExtractStep)

(* ---- fetch_geoms_from_pg ---- *)

\* Values of the geometry column: geometries, NULL, and a value whose binary
\* form does not decode.
NullValue == [type |-> "NULL", c |-> 0]
Malformed == [type |-> "Malformed", c |-> 0]
ColumnValues == GeomPool \cup {NullValue, Malformed}

Tables == [epsg : EPSGs, rows : SeqsUpTo(ColumnValues, MaxFeat)]

StcArgs == {"schema", "table", "column"}

\* The arguments: whether conn or the full credentials are passed, whether
\* sql_query is passed, which of schema, table, column are passed, and the
\* AOI and EPSG arguments.
FetchArgs ==
  {a \in [conn_given : BOOLEAN, creds_ok : BOOLEAN, sql_given : BOOLEAN,
          given : SUBSET StcArgs, aoi : AOIs \cup {NoAOI},
          aoi_epsg : EPSGs \cup {NoneEPSG}, output_epsg : EPSGs \cup {NoneEPSG}] :
     /\ a.conn_given => a.creds_ok
     /\ a.aoi = NoAOI => a.aoi_epsg = NoneEPSG}

\* Statements given to cursor.execute.
NoStatement == [kind |-> "none", pred |-> NoAOI, srid |-> NoneEPSG, out |-> NoneEPSG]
FindSridStatement == [kind |-> "Find_SRID", pred |-> NoAOI, srid |-> NoneEPSG, out |-> NoneEPSG]
UserStatement == [kind |-> "user", pred |-> NoAOI, srid |-> NoneEPSG, out |-> NoneEPSG]

\* lines 126-133: SELECT ST_AsBinary(column) FROM schema.table WHERE column IS
\* NOT NULL, with the ST_Intersects predicate and the ST_Transform push-down.
SelectStatement(aoi, epsg, output_epsg) ==
  [kind |-> "select",
   pred |-> aoi,
   srid |-> IF aoi # NoAOI THEN epsg ELSE NoneEPSG,
   out  |-> IF output_epsg # NoneEPSG /\ output_epsg # epsg
            THEN output_epsg ELSE NoneEPSG]

\* The rows the store returns for a statement.
RunQuery(q, t) ==
  IF q.kind = "select"
  THEN LET Keep(g) == g # NullValue /\ (q.pred = NoAOI \/ Intersects(g, q.pred))
           kept == SelectSeq(t.rows, Keep)
       IN [i \in 1..Len(kept) |->
             IF q.out # NoneEPSG /\ kept[i] # Malformed
             THEN ApplyTransform(get_transform_func(t.epsg, q.out), kept[i])
             ELSE kept[i]]
  ELSE t.rows

\* ST_AsBinary of a column value; wkb.loads accepts the codes 1 and 2.
ST_AsBinary(g) ==
  <<IF g.type = "Point" THEN 1 ELSE IF g.type = "LineString" THEN 2 ELSE 0, g.c>>
Decodable(b) == b[1] \in {1, 2}

InitFetch ==
  /\ IdleWrite /\ IdleGen /\ IdleExtract
  /\ pc = "f_start"
  /\ err = ""
  /\ fs = NoDataset
  /\ dsOpen = FALSE
  /\ f_args \in FetchArgs
  /\ db \in Tables
  /\ connOpen = FALSE
  /\ curOpen = FALSE
  /\ pg_epsg = NoneEPSG
  /\ f_aoi = f_args.aoi
  /\ transformCalls = 0
  /\ stmts = <<>>
  /\ sql_query = NoStatement
  /\ f_rows = <<>>

\* lines 104-111: the credentials check, psycopg2.connect, conn.cursor().
FetchConnect ==
  /\ pc = "f_start"
  /\ IF ~f_args.conn_given /\ ~f_args.creds_ok
     THEN /\ pc' = "failed" /\ err' = "ValueError"
          /\ UNCHANGED <<connOpen, curOpen>>
     ELSE /\ connOpen' = ~f_args.conn_given
          /\ curOpen' = TRUE
          /\ pc' = "f_params"
          /\ err' = err
  /\ UNCHANGED <<fs, dsOpen, wvars, gvars, evars, f_args, pg_epsg, f_aoi,
                 transformCalls, stmts, sql_query, db, f_rows>>

\* lines 112-116: an explicit query is used as it is; otherwise schema, table
\* and column are required.
FetchValidate ==
  /\ pc = "f_params"
  /\ IF f_args.sql_given
     THEN /\ sql_query' = UserStatement
          /\ pc' = "f_exec"
          /\ err' = err
     ELSE /\ IF f_args.given # StcArgs
             THEN pc' = "failed" /\ err' = "ValueError"
             ELSE pc' = "f_srid" /\ err' = err
          /\ sql_query' = sql_query
  /\ UNCHANGED <<fs, dsOpen, wvars, gvars, evars, f_args, connOpen, curOpen,
                 pg_epsg, f_aoi, transformCalls, stmts, db, f_rows>>

\* lines 117-121: the store's SRID is looked up when an AOI or an output EPSG
\* is passed.
FetchFindSrid ==
  /\ pc = "f_srid"
  /\ IF f_args.aoi # NoAOI \/ f_args.output_epsg # NoneEPSG
     THEN /\ stmts' = Append(stmts, FindSridStatement)
          /\ pg_epsg' = db.epsg
     ELSE UNCHANGED <<stmts, pg_epsg>>
  /\ pc' = "f_aoi"
  /\ UNCHANGED <<err, fs, dsOpen, wvars, gvars, evars, f_args, connOpen, curOpen,
                 f_aoi, transformCalls, sql_query, db, f_rows>>

\* Mutant of FetchAoiTransform: the AOI is reprojected whenever its EPSG is
\* declared, also when it equals the store's.
FetchAoiTransform_Always ==
  /\ pc = "f_aoi"
  /\ IF f_aoi # NoAOI /\ f_args.aoi_epsg # NoneEPSG
     THEN /\ f_aoi' = ApplyTransform(get_transform_func(f_args.aoi_epsg, pg_epsg), f_aoi)
          /\ transformCalls' = transformCalls + 1
     ELSE UNCHANGED <<f_aoi, transformCalls>>
  /\ pc' = "f_build"
  /\ UNCHANGED <<err, fs, dsOpen, wvars, gvars, evars, f_args, connOpen, curOpen,
                 pg_epsg, stmts, sql_query, db, f_rows>>

\* lines 122-125: the AOI is reprojected when its declared EPSG differs from
\* the store's.
FetchAoiTransform ==
  /\ pc = "f_aoi"
  /\ IF f_aoi # NoAOI /\ f_args.aoi_epsg # NoneEPSG /\ f_args.aoi_epsg # pg_epsg
     THEN /\ f_aoi' = ApplyTransform(get_transform_func(f_args.aoi_epsg, pg_epsg), f_aoi)
          /\ transformCalls' = transformCalls + 1
     ELSE UNCHANGED <<f_aoi, transformCalls>>
  /\ pc' = "f_build"
  /\ UNCHANGED <<err, fs, dsOpen, wvars, gvars, evars, f_args, connOpen, curOpen,
                 pg_epsg, stmts, sql_query, db, f_rows>>

\* lines 126-133: the retrieval statement is built.
FetchBuildQuery ==
  /\ pc = "f_build"
  /\ sql_query' = SelectStatement(f_aoi, pg_epsg, f_args.output_epsg)
  /\ pc' = "f_exec"
  /\ UNCHANGED <<err, fs, dsOpen, wvars, gvars, evars, f_args, connOpen, curOpen,
                 pg_epsg, f_aoi, transformCalls, stmts, db, f_rows>>

\* line 134: cursor.execute(sql_query).
FetchExecute ==
  /\ pc = "f_exec"
  /\ stmts' = Append(stmts, sql_query)
  /\ f_rows' = RunQuery(sql_query, db)
  /\ pc' = "f_rows"
  /\ suspended' = FALSE
  /\ UNCHANGED <<err, fs, dsOpen, wvars, out, evars, f_args, connOpen, curOpen,
                 pg_epsg, f_aoi, transformCalls, sql_query, db>>

\* lines 135-136: the next row is decoded and yielded; a NULL has no tobytes
\* and a malformed value does not decode.
FetchRow ==
  /\ pc = "f_rows"
  /\ f_rows # <<>>
  /\ f_rows' = Tail(f_rows)
  /\ IF Head(f_rows) = NullValue
     THEN /\ pc' = "failed" /\ err' = "AttributeError"
          /\ suspended' = FALSE /\ out' = out
     ELSE IF ~Decodable(ST_AsBinary(Head(f_rows)))
     THEN /\ pc' = "failed" /\ err' = "WKBReadingError"
          /\ suspended' = FALSE /\ out' = out
     ELSE /\ out' = Append(out, wkb_loads(ST_AsBinary(Head(f_rows))))
          /\ suspended' = TRUE
          /\ UNCHANGED <<pc, err>>
  /\ UNCHANGED <<fs, dsOpen, wvars, evars, f_args, connOpen, curOpen, pg_epsg,
                 f_aoi, transformCalls, stmts, sql_query, db>>

\* line 137 and the return: conn = None, then the generator's locals, the
\* cursor among them, are dropped.
FetchEnd ==
  /\ pc = "f_rows"
  /\ f_rows = <<>>
  /\ connOpen' = FALSE
  /\ curOpen' = FALSE
  /\ pc' = "done"
  /\ suspended' = FALSE
  /\ UNCHANGED <<err, fs, dsOpen, wvars, out, evars, f_args, pg_epsg, f_aoi,
                 transformCalls, stmts, sql_query, db, f_rows>>

NextFetch ==
  \/ FetchConnect
  \/ FetchValidate
  \/ FetchFindSrid
  \/ FetchAoiTransform
  \/ FetchBuildQuery
  \/ FetchExecute
  \/ FetchRow
  \/ FetchEnd
  \/ Abandon
  \/ Finalise

SpecFetch == InitFetch /\ [][NextFetch]_vars

(* ---- properties of the file source ---- *)

HasFilter(a) == a.aoi # NoAOI \/ a.attr_filter # NoFilter

\* What the source is expected to yield for layer l: the features of the ids
\* on the direct path, the features passing the layer's filters otherwise.
ExpectedOfLayer(l) ==
  LET a == e_args.per[l]
      layer == fs.layers[l]
  IN IF ~HasFilter(a) /\ a.fids.given
     THEN [i \in 1..Len(a.fids.ids) |-> layer.feats[a.fids.ids[i] + 1]]
     ELSE FilteredFeatures(layer, LayerAoi(a, layer), a.attr_filter)

RECURSIVE ExpectedOut(_)
ExpectedOut(ls) ==
  IF ls = <<>> THEN <<>> ELSE ExpectedOfLayer(Head(ls)) \o ExpectedOut(Tail(ls))

\* C6: per layer, the direct fetch by id (one GetFeature per id, no
\* iteration of the layer) is taken exactly when the layer has no AOI, no
\* attribute filter and ids; in every other case the layer is scanned with
\* its filters installed and every feature passing them is yielded, so a
\* layer with a filter is read without an error and a completed run has
\* yielded the expected features of every layer.
C6_FilterPrecedence ==
  /\ (pc \in {"e_fetch", "e_scan", "failed", "abandoned"} /\ e_i \in 1..Len(e_layers)) =>
       LET l == e_layers[e_i]
           a == e_args.per[l]
           direct == ~HasFilter(a) /\ a.fids.given
           OnL(c) == c[2] = l /\ c[1] \in {"GetFeature", "iter"}
           reads == SelectSeq(e_calls, OnL)
       IN /\ pc = "e_fetch" => direct
          /\ pc = "e_scan" => ~direct
          /\ direct => reads = [i \in 1..e_lyr.k |-> <<"GetFeature", l, a.fids.ids[i]>>]
          /\ ~direct => \A i \in 1..Len(reads) : reads[i][1] = "iter"
          /\ HasFilter(a) => pc # "failed"
  /\ pc = "done" => out = ExpectedOut(e_layers)

\* The operation has ended in one of the ways C9 names: exhaustion, the
\* caller abandoning the iteration part-way, an exception raised mid-stream
\* (after a geometry was yielded or taken from the input).
EndedMidStreamOrDone ==
  \/ pc \in {"done", "abandoned"}
  \/ pc = "failed" /\ (out # <<>> \/ Len(geoms_iter) < Len(geoms))

\* C9: however the operation ends (exhaustion, the caller abandoning the
\* iteration, an exception mid-stream), every dataset handle, cursor and
\* connection it acquired is eventually released: no run ends with one
\* still open.
C9_ReleasedOnEveryExit ==
  [](EndedMidStreamOrDone => <>(~dsOpen /\ ~curOpen /\ ~connOpen))

(* ---- properties of the database source ---- *)

\* The AOI argument expressed in the store's SRS, and the number of transform
\* calls that takes.
AoiDiffers == f_args.aoi_epsg # NoneEPSG /\ f_args.aoi_epsg # db.epsg
NativeAoi ==
  IF AoiDiffers
  THEN ApplyTransform(get_transform_func(f_args.aoi_epsg, db.epsg), f_args.aoi)
  ELSE f_args.aoi
ExpectedTransformCalls == IF AoiDiffers THEN 1 ELSE 0

\* The retrieval statement that was executed, NoStatement if none was.
Retrieval ==
  IF stmts # <<>> /\ stmts[Len(stmts)].kind # "Find_SRID"
  THEN stmts[Len(stmts)] ELSE NoStatement

\* C7: without an explicit query and with any of schema, table, column
\* missing the call fails with ValueError, and at no point of the call is a
\* connection open, a cursor obtained or a statement executed.
C7_ValidateBeforeIO ==
  (~f_args.sql_given /\ f_args.given # StcArgs) =>
     /\ pc \notin {"f_start", "f_params"} => (pc = "failed" /\ err = "ValueError")
     /\ ~connOpen /\ ~curOpen /\ stmts = <<>>

\* C8 as stated: whenever an AOI is passed, the retrieval statement executed
\* carries the intersects predicate built from the AOI in the store's SRS,
\* after exactly the transform calls that takes.
C8_AoiAlwaysInRetrieval ==
  (f_args.aoi # NoAOI /\ Retrieval # NoStatement) =>
     /\ Retrieval.pred = NativeAoi
     /\ Retrieval.srid = db.epsg
     /\ transformCalls = ExpectedTransformCalls

\* C8, amended: whenever an AOI is passed and no explicit query is, the
\* transform is called once before the statement is built exactly when the
\* AOI's declared EPSG differs from the store's (never when they are equal,
\* never after the statement is built), the statement built carries the
\* intersects predicate of the AOI in the store's SRS, and it is the
\* retrieval statement executed.
C8_AoiInBuiltQuery ==
  (f_args.aoi # NoAOI /\ ~f_args.sql_given) =>
     /\ transformCalls <= ExpectedTransformCalls
     /\ pc = "f_build" => transformCalls = ExpectedTransformCalls
     /\ sql_query.kind = "select" =>
          /\ sql_query.pred = NativeAoi
          /\ sql_query.srid = db.epsg
          /\ transformCalls = ExpectedTransformCalls
     /\ Retrieval # NoStatement => Retrieval = sql_query /\ sql_query.kind = "select"
     /\ pc \in {"f_rows", "done"} => Retrieval # NoStatement

C8_Witness ==
  /\ pc = "done" /\ ~f_args.sql_given /\ f_args.aoi # NoAOI
  /\ transformCalls = 1
  /\ Retrieval.kind = "select" /\ Retrieval.pred # f_args.aoi
  /\ out # <<>>

====
